---- MODULE Spec2Model ----
(***************************************************************************)
(* A model of hugging_py_face/nlp.py: the NLP client.  Every task method   *)
(* builds a JSON envelope, funnels into NLP._query, which resolves the     *)
(* URL, sends one POST and parses the JSON answer; three tabular adapters  *)
(* write a 'predictions' column into a DataFrame.                          *)
(*                                                                         *)
(* Python values are modelled by records of one uniform shape              *)
(*   [t, s, keys, items]                                                   *)
(* t the Python type, s the text of a scalar, keys/items the ordered keys  *)
(* and values of a dict, items the elements of a list.  json.dumps and     *)
(* json.loads are modelled as a serialiser to a token sequence and a       *)
(* recursive-descent parser of token sequences.                            *)
(***************************************************************************)
EXTENDS Integers, Sequences, FiniteSets, TLC

VARIABLES
    client,        \* the NLP object: its api_token and config fields
    zsc_default,   \* the mapping object bound, once, as the default of zero_shot_classification's `parameters`
    last,          \* the observable record of the latest call: arguments, request sent, outcome
    frames         \* per caller, the frame of its call in progress when callers run concurrently

vars == <<client, zsc_default, last, frames>>

(***************************************************************************)
(* Bounds of the model.                                                    *)
(***************************************************************************)
MaxRows == 2

(***************************************************************************)
(* Python values.                                                          *)
(***************************************************************************)
PyNone == [t |-> "None", s |-> "", keys |-> <<>>, items |-> <<>>]

PyStr(x) == [t |-> "str", s |-> x, keys |-> <<>>, items |-> <<>>]

PyNum(x) == [t |-> "num", s |-> x, keys |-> <<>>, items |-> <<>>]

PyBool(x) == [t |-> "bool", s |-> x, keys |-> <<>>, items |-> <<>>]

PyList(xs) == [t |-> "list", s |-> "", keys |-> <<>>, items |-> xs]

PyDict(ks, vs) == [t |-> "dict", s |-> "", keys |-> ks, items |-> vs]

EmptyDict == PyDict(<<>>, <<>>)

\* An exception in flight, carried in the place of a value.
Raise(e) == [t |-> "raise", s |-> e, keys |-> <<>>, items |-> <<>>]

IsRaise(v) == v.t = "raise"

DictHas(d, k) == \E i \in 1..Len(d.keys) : d.keys[i] = k

DictPos(d, k) == CHOOSE i \in 1..Len(d.keys) : d.keys[i] = k

DictGet(d, k) == d.items[DictPos(d, k)]

\* d[k] = v: an existing key keeps its place, a new key goes last.
DictSet(d, k, v) ==
    IF DictHas(d, k)
    THEN PyDict(d.keys, [d.items EXCEPT ![DictPos(d, k)] = v])
    ELSE PyDict(Append(d.keys, k), Append(d.items, v))

(***************************************************************************)
(* json.dumps: a value to its JSON text, a sequence of tokens.             *)
(***************************************************************************)
Tok(k, s) == [k |-> k, s |-> s]

RECURSIVE json_dumps(_)
RECURSIVE dumps_items(_, _)
RECURSIVE dumps_members(_, _)

dumps_items(xs, i) ==
    IF i > Len(xs) THEN <<>>
    ELSE (IF i > 1 THEN <<Tok(",", "")>> ELSE <<>>)
         \o json_dumps(xs[i]) \o dumps_items(xs, i + 1)

dumps_members(d, i) ==
    IF i > Len(d.keys) THEN <<>>
    ELSE (IF i > 1 THEN <<Tok(",", "")>> ELSE <<>>)
         \o <<Tok("string", d.keys[i]), Tok(":", "")>>
         \o json_dumps(d.items[i]) \o dumps_members(d, i + 1)

json_dumps(v) ==
    CASE v.t = "None" -> <<Tok("null", "")>>
      [] v.t = "bool" -> <<Tok(IF v.s = "True" THEN "true" ELSE "false", "")>>
      [] v.t = "num"  -> <<Tok("number", v.s)>>
      [] v.t = "str"  -> <<Tok("string", v.s)>>
      [] v.t = "list" -> <<Tok("[", "")>> \o dumps_items(v.items, 1) \o <<Tok("]", "")>>
      [] v.t = "dict" -> <<Tok("{", "")>> \o dumps_members(v, 1) \o <<Tok("}", "")>>

(***************************************************************************)
(* json.loads: JSON text to a value, or JSONDecodeError.                   *)
(***************************************************************************)
Parsed(v, i) == [ok |-> TRUE, v |-> v, i |-> i]

ParseFail == [ok |-> FALSE, v |-> PyNone, i |-> 0]

RECURSIVE parse_value(_, _)
RECURSIVE parse_elements(_, _, _)
RECURSIVE parse_members(_, _, _)

parse_elements(toks, i, acc) ==
    LET r == parse_value(toks, i) IN
    IF ~r.ok \/ r.i > Len(toks) THEN ParseFail
    ELSE IF toks[r.i].k = "," THEN parse_elements(toks, r.i + 1, Append(acc, r.v))
    ELSE IF toks[r.i].k = "]" THEN Parsed(PyList(Append(acc, r.v)), r.i + 1)
    ELSE ParseFail

parse_members(toks, i, acc) ==
    IF i + 1 > Len(toks) THEN ParseFail
    ELSE IF toks[i].k # "string" \/ toks[i + 1].k # ":" THEN ParseFail
    ELSE LET r == parse_value(toks, i + 2) IN
         IF ~r.ok \/ r.i > Len(toks) THEN ParseFail
         ELSE IF toks[r.i].k = ","
              THEN parse_members(toks, r.i + 1, DictSet(acc, toks[i].s, r.v))
         ELSE IF toks[r.i].k = "}"
              THEN Parsed(DictSet(acc, toks[i].s, r.v), r.i + 1)
         ELSE ParseFail

parse_value(toks, i) ==
    IF i > Len(toks) THEN ParseFail
    ELSE LET k == toks[i].k IN
         CASE k = "null"   -> Parsed(PyNone, i + 1)
           [] k = "true"   -> Parsed(PyBool("True"), i + 1)
           [] k = "false"  -> Parsed(PyBool("False"), i + 1)
           [] k = "number" -> Parsed(PyNum(toks[i].s), i + 1)
           [] k = "string" -> Parsed(PyStr(toks[i].s), i + 1)
           [] k = "["      -> IF i + 1 <= Len(toks) /\ toks[i + 1].k = "]"
                              THEN Parsed(PyList(<<>>), i + 2)
                              ELSE parse_elements(toks, i + 1, <<>>)
           [] k = "{"      -> IF i + 1 <= Len(toks) /\ toks[i + 1].k = "}"
                              THEN Parsed(EmptyDict, i + 2)
                              ELSE parse_members(toks, i + 1, EmptyDict)
           [] OTHER        -> ParseFail

\* The whole text must be one value: trailing tokens are "Extra data".
json_loads(toks) ==
    LET r == parse_value(toks, 1) IN
    IF r.ok /\ r.i = Len(toks) + 1 THEN r.v ELSE Raise("JSONDecodeError")

(***************************************************************************)
(* The configuration read by ConfigParser.get_config_dict.                 *)
(***************************************************************************)
TASKS ==
    {"fill-mask", "summarization", "question-answering", "sentence-similarity",
     "text-classification", "text-generation", "zero-shot-classification",
     "conversational", "feature-extraction"}

BASE_URL == "https://api-inference.huggingface.co/models"

TASK_MODEL_MAP == [task \in TASKS |-> task \o "-default"]

\* NLP.__init__: the token and the configuration, read once.
NLP(api_token) ==
    [api_token |-> api_token,
     config |-> [BASE_URL |-> BASE_URL, TASK_MODEL_MAP |-> TASK_MODEL_MAP]]

(***************************************************************************)
(* NLP._query, step by step.                                               *)
(***************************************************************************)
\* A lookup that raises nothing: dict.get in the place of dict[...].
api_url_get(self, model, task) ==
    [ok |-> TRUE, err |-> "",
     url |-> self.config.BASE_URL \o "/" \o
             (IF model.t # "None" THEN model.s
              ELSE IF task.t = "str" /\ task.s \in DOMAIN self.config.TASK_MODEL_MAP
                   THEN self.config.TASK_MODEL_MAP[task.s]
              ELSE "None")]

\* The task's default model wins over an explicit model.
api_url_task_first(self, model, task) ==
    IF task.t = "str" /\ task.s \in DOMAIN self.config.TASK_MODEL_MAP
    THEN [ok |-> TRUE, err |-> "",
          url |-> self.config.BASE_URL \o "/" \o self.config.TASK_MODEL_MAP[task.s]]
    ELSE IF model.t # "None"
    THEN [ok |-> TRUE, err |-> "", url |-> self.config.BASE_URL \o "/" \o model.s]
    ELSE [ok |-> FALSE, err |-> "KeyError", url |-> ""]

\* `model if model else ...`: an empty model falls back to the task lookup.
api_url_truthy(self, model, task) ==
    IF model.t # "None" /\ model.s # ""
    THEN [ok |-> TRUE, err |-> "", url |-> self.config.BASE_URL \o "/" \o model.s]
    ELSE IF task.t = "str" /\ task.s \in DOMAIN self.config.TASK_MODEL_MAP
    THEN [ok |-> TRUE, err |-> "",
          url |-> self.config.BASE_URL \o "/" \o self.config.TASK_MODEL_MAP[task.s]]
    ELSE [ok |-> FALSE, err |-> "KeyError", url |-> ""]

\* Line 17: f"{BASE_URL}/{model if model is not None else TASK_MODEL_MAP[task]}".
\* The subscript raises KeyError for a task that is no key of the map (None included).
api_url(self, model, task) ==
    IF model.t # "None"
    THEN [ok |-> TRUE, err |-> "", url |-> self.config.BASE_URL \o "/" \o model.s]
    ELSE IF task.t = "str" /\ task.s \in DOMAIN self.config.TASK_MODEL_MAP
    THEN [ok |-> TRUE, err |-> "",
          url |-> self.config.BASE_URL \o "/" \o self.config.TASK_MODEL_MAP[task.s]]
    ELSE [ok |-> FALSE, err |-> "KeyError", url |-> ""]

\* Lines 19-21.
headers(self) == "Bearer " \o self.api_token

\* Both keys always set, an absent argument as None.
data_always(inputs, parameters, options) ==
    PyDict(<<"inputs", "parameters", "options">>, <<inputs, parameters, options>>)

\* Lines 23-31.
data(inputs, parameters, options) ==
    LET d0 == PyDict(<<"inputs">>, <<inputs>>)
        d1 == IF parameters.t # "None" THEN DictSet(d0, "parameters", parameters) ELSE d0
    IN  IF options.t # "None" THEN DictSet(d1, "options", options) ELSE d1

\* The answer of requests.request: a response (status, content) or a transport error.
HttpResponse(status, content) == [kind |-> "response", status |-> status, content |-> content]

HttpFailure == [kind |-> "ConnectionError", status |-> 0, content |-> <<>>]

\* response.raise_for_status() before parsing.
response_json_raise_for_status(http) ==
    IF http.status >= 400 THEN Raise("HTTPError") ELSE json_loads(http.content)

\* Line 34: json.loads(response.content.decode("utf-8")), whatever the status.
response_json(http) == json_loads(http.content)

\* Lines 16-34.  The value is what the call did: the POST it sent (if any) and
\* what it returned or raised.
_query(self, inputs, parameters, options, model, task, http) ==
    LET u == api_url(self, model, task)
        args == [inputs |-> inputs, parameters |-> parameters, options |-> options,
                 model |-> model, task |-> task]
    IN  IF ~u.ok
        THEN [called |-> TRUE, args |-> args, sent |-> 0, url |-> "", auth |-> "",
              body |-> <<>>, result |-> Raise(u.err)]
        ELSE [called |-> TRUE, args |-> args, sent |-> 1, url |-> u.url,
              auth |-> headers(self),
              body |-> json_dumps(data(inputs, parameters, options)),
              result |-> IF http.kind = "response" THEN response_json(http)
                         ELSE Raise(http.kind)]

\* A call that raised before reaching _query.
NotQueried(e) ==
    [called |-> FALSE,
     args |-> [inputs |-> PyNone, parameters |-> PyNone, options |-> PyNone,
               model |-> PyNone, task |-> PyNone],
     sent |-> 0, url |-> "", auth |-> "", body |-> <<>>, result |-> Raise(e)]

(***************************************************************************)
(* Task methods.  Each is an operator giving what the call did (the value  *)
(* of _query) and an action recording it in `last`.                        *)
(***************************************************************************)
\* A DataFrame: n rows, the column names in order, one sequence of cells per column.
DataFrame(n, names, cols) == [n |-> n, names |-> names, data |-> cols]

NoDf == DataFrame(0, <<>>, <<>>)

\* The record of a call; the fields a method does not use keep these values.
Blank ==
    [op |-> "", cparameters |-> PyNone, coptions |-> PyNone, cmodel |-> PyNone,
     q |-> [NotQueried("") EXCEPT !.result = PyNone],
     http |-> HttpFailure,
     labels |-> PyNone, pGiven |-> FALSE, pBefore |-> PyNone, pAfter |-> PyNone,
     past_user_inputs |-> PyNone, generated_responses |-> PyNone,
     column |-> "", dfBefore |-> NoDf, dfAfter |-> NoDf,
     raised |-> ""]

\* A method that returns _query's value returns or raises what _query does.
Called(op, parameters, options, model, http, q) ==
    [Blank EXCEPT !.op = op, !.cparameters = parameters, !.coptions = options,
                  !.cmodel = model, !.http = http, !.q = q,
                  !.raised = IF IsRaise(q.result) THEN q.result.s ELSE ""]

\* A direct call of the dispatcher, lines 16-34.
query(inputs, parameters, options, model, task, http) ==
    /\ last' = Called("_query", parameters, options, model, http,
                      _query(client, inputs, parameters, options, model, task, http))
    /\ UNCHANGED <<client, zsc_default, frames>>

\* Line 48.
fill_mask(text, options, model, http) ==
    /\ last' = Called("fill_mask", PyNone, options, model, http,
                      _query(client, text, PyNone, options, model, PyStr("fill-mask"), http))
    /\ UNCHANGED <<client, zsc_default, frames>>

\* Line 79.
summarization_query(self, text, parameters, options, model, http) ==
    _query(self, text, parameters, options, model, PyStr("summarization"), http)

summarization(text, parameters, options, model, http) ==
    /\ last' = Called("summarization", parameters, options, model, http,
                      summarization_query(client, text, parameters, options, model, http))
    /\ UNCHANGED <<client, zsc_default, frames>>

\* Lines 107-114.
question_answering(question, context, model, http) ==
    /\ last' = Called("question_answering", PyNone, PyNone, model, http,
                      _query(client,
                             PyDict(<<"question", "context">>, <<question, context>>),
                             PyNone, PyNone, model, PyStr("question-answering"), http))
    /\ UNCHANGED <<client, zsc_default, frames>>

\* Lines 126-134.
sentence_similarity(source_sentence, sentences, options, model, http) ==
    /\ last' = Called("sentence_similarity", PyNone, options, model, http,
                      _query(client,
                             PyDict(<<"source_sentence", "sentences">>,
                                    <<source_sentence, sentences>>),
                             PyNone, options, model, PyStr("sentence-similarity"), http))
    /\ UNCHANGED <<client, zsc_default, frames>>

\* Line 145.
text_classification(text, options, model, http) ==
    /\ last' = Called("text_classification", PyNone, options, model, http,
                      _query(client, text, PyNone, options, model,
                             PyStr("text-classification"), http))
    /\ UNCHANGED <<client, zsc_default, frames>>

\* Line 171.
text_generation(text, parameters, options, model, http) ==
    /\ last' = Called("text_generation", parameters, options, model, http,
                      _query(client, text, parameters, options, model,
                             PyStr("text-generation"), http))
    /\ UNCHANGED <<client, zsc_default, frames>>

\* Line 173: the object `parameters` is bound to.  The default {} is evaluated once,
\* when the method is defined: every call that omits the argument gets that one object.
zsc_parameters(given, value, default) == IF given THEN value ELSE default

\* Line 184: parameters['candidate_labels'] = candidate_labels, in place.
\* None does not support item assignment.
zsc_insert(parameters, candidate_labels) ==
    IF parameters.t = "dict"
    THEN DictSet(parameters, "candidate_labels", candidate_labels)
    ELSE Raise("TypeError")

\* Lines 184-192.
zero_shot_classification(text, candidate_labels, given, value, options, model, http) ==
    LET before == zsc_parameters(given, value, zsc_default)
        after  == zsc_insert(before, candidate_labels)
        q == IF IsRaise(after) THEN NotQueried(after.s)
             ELSE _query(client, text, after, options, model,
                         PyStr("zero-shot-classification"), http)
    IN  /\ last' = [Called("zero_shot_classification",
                           IF given THEN value ELSE PyNone, options, model, http, q)
                    EXCEPT !.labels = candidate_labels, !.pGiven = given,
                           !.pBefore = before,
                           !.pAfter = IF IsRaise(after) THEN before ELSE after]
        /\ zsc_default' = IF ~given /\ ~IsRaise(after) THEN after ELSE zsc_default
        /\ UNCHANGED <<client, frames>>

\* Both optional keys always set.
conversational_inputs_always(text, past_user_inputs, generated_responses) ==
    PyDict(<<"text", "past_user_inputs", "generated_responses">>,
           <<text, past_user_inputs, generated_responses>>)

\* Lines 206-214.
conversational_inputs(text, past_user_inputs, generated_responses) ==
    LET i0 == PyDict(<<"text">>, <<text>>)
        i1 == IF past_user_inputs.t # "None"
              THEN DictSet(i0, "past_user_inputs", past_user_inputs) ELSE i0
    IN  IF generated_responses.t # "None"
        THEN DictSet(i1, "generated_responses", generated_responses) ELSE i1

\* Lines 206-222.
conversational(text, past_user_inputs, generated_responses, parameters, options, model, http) ==
    /\ last' = [Called("conversational", parameters, options, model, http,
                       _query(client,
                              conversational_inputs(text, past_user_inputs,
                                                    generated_responses),
                              parameters, options, model, PyStr("conversational"), http))
                EXCEPT !.past_user_inputs = past_user_inputs,
                       !.generated_responses = generated_responses]
    /\ UNCHANGED <<client, zsc_default, frames>>

\* Line 233.
feature_extraction(text, options, model, http) ==
    /\ last' = Called("feature_extraction", PyNone, options, model, http,
                      _query(client, text, PyNone, options, model,
                             PyStr("feature-extraction"), http))
    /\ UNCHANGED <<client, zsc_default, frames>>

(***************************************************************************)
(* The callers' arguments and the service's answers.                       *)
(***************************************************************************)
Texts == {PyStr("Paris is the [MASK] of France."),
          PyList(<<PyStr("I like you."), PyStr("I love [MASK].")>>)}

ParameterArgs == {PyNone, EmptyDict, PyDict(<<"max_length">>, <<PyNum("20")>>)}

OptionArgs == {PyNone, PyDict(<<"wait_for_model">>, <<PyBool("True")>>)}

ModelArgs == {PyNone, PyStr(""), PyStr("gpt2")}

TaskArgs == {PyNone, PyStr("fill-mask"), PyStr("translation")}

CandidateLabels == {PyList(<<PyStr("refund"), PyStr("legal")>>), PyList(<<PyStr("faq")>>)}

\* What a caller may pass as zero_shot_classification's `parameters`.
ZscGiven ==
    {PyNone, EmptyDict,
     PyDict(<<"multi_label">>, <<PyBool("True")>>),
     PyDict(<<"candidate_labels", "multi_label">>,
            <<PyList(<<PyStr("old")>>), PyBool("False")>>)}

History == {PyNone, PyList(<<PyStr("Which movie is the best ?")>>)}

\* JSON values the service answers with.
Answer ==
    PyDict(<<"score", "start", "end", "answer">>,
           <<PyNum("0.9"), PyNum("0"), PyNum("1"), PyStr("X")>>)

ServiceError ==
    PyDict(<<"error", "estimated_time">>, <<PyStr("Model gpt2 is currently loading"), PyNum("20.0")>>)

Nested ==
    PyList(<<PyList(<<PyDict(<<"label", "score", "extra">>,
                             <<PyStr("POSITIVE"), PyNum("0.99"),
                               PyDict(<<"k">>, <<PyList(<<PyNone, PyBool("False")>>)>>)>>)>>)>>)

\* A body cut short: no well-formed JSON.
Truncated == <<Tok("{", ""), Tok("string", "error"), Tok(":", "")>>

HttpAnswers ==
    {HttpResponse(200, json_dumps(Answer)), HttpResponse(200, json_dumps(Nested)),
     HttpResponse(503, json_dumps(ServiceError)), HttpResponse(200, Truncated),
     HttpFailure}

\* The callers that may run at the same time, each in a thread of its own.
Callers == {"c1", "c2"}

\* The frame of a caller that is in no call.
NoFrame ==
    [pc |-> "idle", op |-> "", self |-> NLP(""), text |-> PyNone, labels |-> PyNone,
     given |-> FALSE, parameters |-> PyNone, options |-> PyNone, model |-> PyNone,
     q |-> [NotQueried("") EXCEPT !.result = PyNone]]

Init ==
    /\ client = NLP("hf_token")
    /\ zsc_default = EmptyDict
    /\ last = Blank
    /\ frames = [c \in Callers |-> NoFrame]

NextTasks ==
    \/ \E p \in ParameterArgs, o \in OptionArgs, m \in ModelArgs, t \in TaskArgs,
          h \in HttpAnswers :
          query(PyStr("hello"), p, o, m, t, h)
    \/ \E x \in Texts, o \in OptionArgs, m \in ModelArgs, h \in HttpAnswers :
          fill_mask(x, o, m, h)
    \/ \E p \in ParameterArgs, o \in OptionArgs, m \in ModelArgs, h \in HttpAnswers :
          summarization(PyStr("The tower is 324 metres tall."), p, o, m, h)
    \/ \E m \in ModelArgs, h \in HttpAnswers :
          question_answering(PyStr("Q"), PyStr("C"), m, h)
    \/ \E o \in OptionArgs, m \in ModelArgs, h \in HttpAnswers :
          sentence_similarity(PyStr("That is a happy person"),
                              PyList(<<PyStr("That is a happy dog")>>), o, m, h)
    \/ \E o \in OptionArgs, m \in ModelArgs, h \in HttpAnswers :
          text_classification(PyStr("I like you. I love you"), o, m, h)
    \/ \E p \in ParameterArgs, o \in OptionArgs, m \in ModelArgs, h \in HttpAnswers :
          text_generation(PyStr("The answer to the universe is"), p, o, m, h)
    \/ \E v \in ZscGiven, o \in OptionArgs, m \in ModelArgs, h \in HttpAnswers :
          zero_shot_classification(PyStr("I want my money back"),
                                   PyList(<<PyStr("refund"), PyStr("legal")>>),
                                   TRUE, v, o, m, h)
    \/ \E u \in History, r \in History, p \in ParameterArgs, m \in ModelArgs,
          h \in HttpAnswers :
          conversational(PyStr("Can you explain why ?"), u, r, p, PyNone, m, h)
    \/ \E o \in OptionArgs, m \in ModelArgs, h \in HttpAnswers :
          feature_extraction(PyStr("Paris is the capital of France."), o, m, h)

SpecTasks == Init /\ [][NextTasks]_vars

\* Calls of zero_shot_classification alone, the `parameters` argument given or omitted.
NextZeroShot ==
    \E l \in CandidateLabels, g \in BOOLEAN, v \in ZscGiven, o \in OptionArgs,
       m \in ModelArgs, h \in HttpAnswers :
       /\ (~g => v = PyNone)
       /\ zero_shot_classification(PyStr("I want my money back"), l, g, v, o, m, h)

SpecZeroShot == Init /\ [][NextZeroShot]_vars

(***************************************************************************)
(* Properties of the dispatcher and the task methods.                      *)
(***************************************************************************)
\* The request body as the service decodes it.
SentBody == json_loads(last.q.body)

\* The fixed task identifier of each task method.
TaskOf ==
    [fill_mask |-> "fill-mask", summarization |-> "summarization",
     question_answering |-> "question-answering",
     sentence_similarity |-> "sentence-similarity",
     text_classification |-> "text-classification",
     text_generation |-> "text-generation",
     zero_shot_classification |-> "zero-shot-classification",
     conversational |-> "conversational",
     feature_extraction |-> "feature-extraction"]

TaskMethods == DOMAIN TaskOf

KnownTask(task) == task.t = "str" /\ task.s \in TASKS

\* C1: every request body sent by _query is an object with the key 'inputs', with
\* the key 'parameters' exactly when the parameters argument was not None and the
\* key 'options' exactly when the options argument was not None; no key of the
\* body holds null for an absent argument.
C1_AbsentArgumentsOmitted ==
    last.q.sent >= 1 =>
        /\ SentBody.t = "dict"
        /\ DictHas(SentBody, "inputs")
        /\ DictGet(SentBody, "inputs") = last.q.args.inputs
        /\ DictHas(SentBody, "parameters") <=> last.q.args.parameters # PyNone
        /\ DictHas(SentBody, "options") <=> last.q.args.options # PyNone
        /\ \A i \in 1..Len(SentBody.keys) :
              /\ SentBody.keys[i] \in {"inputs", "parameters", "options"}
              /\ SentBody.keys[i] # "inputs" => SentBody.items[i] # PyNone

C1_Witness ==
    /\ last.op = "summarization"
    /\ last.q.sent = 1
    /\ last.cparameters = PyNone
    /\ last.coptions # PyNone
    /\ SentBody.keys = <<"inputs", "options">>

\* C2: a task method called with an explicit model m posts to base_url/m whatever
\* its task; called without a model it posts to base_url/task_model_map[task] for
\* the method's fixed task.
C2_ModelOverridesTask ==
    (last.op \in TaskMethods /\ last.q.called) =>
        /\ last.q.sent = 1
        /\ last.q.args.model = last.cmodel
        /\ last.q.args.task = PyStr(TaskOf[last.op])
        /\ last.q.url = BASE_URL \o "/" \o
                        (IF last.cmodel # PyNone THEN last.cmodel.s
                         ELSE TASK_MODEL_MAP[TaskOf[last.op]])

C2_Witness ==
    /\ last.op = "question_answering"
    /\ last.cmodel = PyStr("gpt2")
    /\ last.q.sent = 1
    /\ last.q.url = BASE_URL \o "/gpt2"

\* C3 as stated: with model = "" the dispatcher resolves the model by the task
\* lookup, and the URL never ends in an empty model identifier.
C3_EmptyModelFallsBack ==
    (last.op \in TaskMethods /\ last.q.called /\ last.cmodel = PyStr("")) =>
        /\ last.q.url = BASE_URL \o "/" \o TASK_MODEL_MAP[TaskOf[last.op]]
        /\ last.q.url # BASE_URL \o "/"

\* C3 as amended: an empty model is a given model.  The POST goes to base_url + "/"
\* with no lookup at all (an unknown task raises nothing); the task lookup decides
\* the URL only when model is None.
C3_EmptyModelUsedVerbatim ==
    /\ (last.q.called /\ last.q.args.model = PyStr("")) =>
          /\ last.q.sent = 1
          /\ last.q.url = BASE_URL \o "/"
    /\ (last.q.called /\ last.q.args.model = PyNone /\ KnownTask(last.q.args.task)) =>
          /\ last.q.sent = 1
          /\ last.q.url = BASE_URL \o "/" \o TASK_MODEL_MAP[last.q.args.task.s]

C3_Witness ==
    /\ last.op = "fill_mask"
    /\ last.cmodel = PyStr("")
    /\ last.q.sent = 1
    /\ last.q.url = BASE_URL \o "/"

\* C4: a call with no model and a task that is no key of task_model_map raises
\* KeyError and sends no request; the call after a failed one, on the same client,
\* dispatches as usual when its model or task resolves.
C4_LookupErrorPerCall ==
    [][/\ (last'.q.called /\ last'.q.args.model = PyNone
           /\ ~KnownTask(last'.q.args.task)) =>
              /\ last'.raised = "KeyError"
              /\ last'.q.sent = 0
              /\ last'.q.body = <<>>
       /\ (last.raised = "KeyError" /\ last'.q.called
           /\ (last'.q.args.model # PyNone \/ KnownTask(last'.q.args.task))) =>
              /\ client' = client
              /\ last'.q.sent = 1
              /\ last'.q.url = BASE_URL \o "/" \o
                     (IF last'.q.args.model # PyNone THEN last'.q.args.model.s
                      ELSE TASK_MODEL_MAP[last'.q.args.task.s])
              /\ last'.raised # "KeyError"]_vars

C4_Witness ==
    /\ last.op = "_query"
    /\ last.q.args.model = PyNone
    /\ last.q.args.task = PyStr("translation")
    /\ last.raised = "KeyError"
    /\ last.q.sent = 0

\* C5: when the service answers a dispatched request with the JSON text of a value
\* v, whatever the status, the call returns v itself (an error-shaped v too, never
\* an exception) and exactly one POST was sent.
C5_ResponseReturnedVerbatim ==
    \A v \in {Answer, Nested, ServiceError}, st \in {200, 503} :
        (last.q.sent >= 1 /\ last.http = HttpResponse(st, json_dumps(v))) =>
            /\ last.q.result = v
            /\ last.raised = ""
            /\ last.q.sent = 1

C5_Witness ==
    /\ last.op = "text_generation"
    /\ last.q.sent = 1
    /\ last.http = HttpResponse(503, json_dumps(ServiceError))
    /\ last.q.result = ServiceError
    /\ last.raised = ""

\* C7: the inputs object of a conversational request has 'text', has
\* 'past_user_inputs' exactly when that argument was given and
\* 'generated_responses' exactly when that argument was given; with neither, it
\* holds 'text' alone.
C7_ConversationalOptionalKeys ==
    (last.op = "conversational" /\ last.q.sent = 1) =>
        LET inputs == DictGet(SentBody, "inputs") IN
        /\ inputs.t = "dict"
        /\ DictHas(inputs, "text")
        /\ DictHas(inputs, "past_user_inputs") <=> last.past_user_inputs # PyNone
        /\ DictHas(inputs, "generated_responses") <=> last.generated_responses # PyNone
        /\ \A i \in 1..Len(inputs.keys) :
              inputs.keys[i] \in {"text", "past_user_inputs", "generated_responses"}
        /\ (last.past_user_inputs = PyNone /\ last.generated_responses = PyNone) =>
              inputs.keys = <<"text">>

C7_Witness ==
    /\ last.op = "conversational"
    /\ last.q.sent = 1
    /\ last.past_user_inputs = PyNone
    /\ last.generated_responses = PyNone
    /\ DictGet(SentBody, "inputs").keys = <<"text">>

\* C6: a zero_shot_classification call with candidate labels L sends a body whose
\* parameters.candidate_labels is L; a mapping the caller gives has L inserted in
\* place, its other keys sent unchanged; with the argument omitted the body's
\* parameters is exactly {candidate_labels: L}, built from an empty mapping
\* created for that call.
C6_ZeroShotParameters ==
    (last.op = "zero_shot_classification" /\ (~last.pGiven \/ last.cparameters # PyNone)) =>
        /\ last.q.sent = 1
        /\ DictGet(DictGet(SentBody, "parameters"), "candidate_labels") = last.labels
        /\ last.pGiven =>
              /\ last.pAfter = DictSet(last.pBefore, "candidate_labels", last.labels)
              /\ DictGet(SentBody, "parameters") = last.pAfter
              /\ \A i \in 1..Len(last.pBefore.keys) :
                    last.pBefore.keys[i] # "candidate_labels" =>
                        DictGet(DictGet(SentBody, "parameters"), last.pBefore.keys[i])
                            = last.pBefore.items[i]
        /\ ~last.pGiven =>
              /\ DictGet(SentBody, "parameters")
                    = PyDict(<<"candidate_labels">>, <<last.labels>>)
              /\ last.pBefore = EmptyDict

(***************************************************************************)
(* The Python and pandas operations the tabular adapters use.              *)
(***************************************************************************)
\* The first character of a string that is iterated or indexed here: the keys of
\* the service's error object.
str_first(x) ==
    CASE x = "" -> Raise("IndexError")
      [] x \in {"error", "estimated_time"} -> PyStr("e")
      [] OTHER -> PyStr("?")

\* iter(v): the elements of a list, the keys of a dict; a scalar is not iterable.
\* (Strings are iterable too; no adapter iterates one: json.loads gives the
\* top-level value and the data here has no top-level string.)
py_iter(v) ==
    CASE v.t = "list" -> v
      [] v.t = "dict" -> PyList([i \in 1..Len(v.keys) |-> PyStr(v.keys[i])])
      [] v.t = "raise" -> v
      [] OTHER -> Raise("TypeError")

\* v[0]
getitem_0(v) ==
    CASE v.t = "list" -> IF Len(v.items) >= 1 THEN v.items[1] ELSE Raise("IndexError")
      [] v.t = "dict" -> Raise("KeyError")
      [] v.t = "str" -> str_first(v.s)
      [] v.t = "raise" -> v
      [] OTHER -> Raise("TypeError")

\* v[k] for a string k
getitem_key(v, k) ==
    CASE v.t = "dict" -> IF DictHas(v, k) THEN DictGet(v, k) ELSE Raise("KeyError")
      [] v.t = "raise" -> v
      [] OTHER -> Raise("TypeError")

\* [f(x) for x in xs], ys the values f(x) in order: the list, or the exception of
\* the first element that raises.
ListComp(ys) ==
    LET bad == {i \in 1..Len(ys) : IsRaise(ys[i])}
    IN  IF bad = {} THEN PyList(ys)
        ELSE ys[CHOOSE i \in bad : \A j \in bad : i <= j]

\* df[column].tolist()
df_getitem(df, column) ==
    IF \E j \in 1..Len(df.names) : df.names[j] = column
    THEN PyList(df.data[CHOOSE j \in 1..Len(df.names) : df.names[j] = column])
    ELSE Raise("KeyError")

NaN == PyNum("nan")

\* df[column] = values, values a list.  A frame with an empty index takes its index
\* from a non-empty list (its other columns filled with NaN); otherwise the list
\* must be as long as the index, or pandas raises ValueError and df is unchanged.
df_setitem(df, column, values) ==
    LET base == IF df.n = 0 /\ Len(values) > 0
                THEN DataFrame(Len(values), df.names,
                               [j \in 1..Len(df.names) |-> [i \in 1..Len(values) |-> NaN]])
                ELSE df
    IN  IF Len(values) # base.n
        THEN [df |-> df, err |-> "ValueError"]
        ELSE IF \E j \in 1..Len(base.names) : base.names[j] = column
        THEN [df |-> DataFrame(base.n, base.names,
                               [j \in 1..Len(base.names) |->
                                   IF base.names[j] = column THEN values ELSE base.data[j]]),
              err |-> ""]
        ELSE [df |-> DataFrame(base.n, Append(base.names, column), Append(base.data, values)),
              err |-> ""]

(***************************************************************************)
(* The tabular adapters.                                                   *)
(***************************************************************************)
\* Lines 36-37.
_query_in_df(self, df, column, parameters, options, model, task, http) ==
    LET inputs == df_getitem(df, column) IN
    IF IsRaise(inputs) THEN NotQueried(inputs.s)
    ELSE _query(self, inputs, parameters, options, model, task, http)

first_sequence(prediction) == getitem_key(getitem_0(prediction), "sequence")

\* The flat branch taking one value per element.
fill_mask_predictions_each(predictions) ==
    LET it == py_iter(predictions) IN
    IF IsRaise(it) THEN it
    ELSE IF \E i \in 1..Len(it.items) : it.items[i].t = "list"
    THEN ListComp([i \in 1..Len(it.items) |-> first_sequence(it.items[i])])
    ELSE ListComp([i \in 1..Len(it.items) |-> getitem_key(it.items[i], "sequence")])

\* Lines 62-65: the list assigned to df['predictions'], or the exception raised.
fill_mask_predictions(predictions) ==
    LET it == py_iter(predictions) IN
    IF IsRaise(it) THEN it
    ELSE IF \E i \in 1..Len(it.items) : it.items[i].t = "list"
    THEN ListComp([i \in 1..Len(it.items) |-> first_sequence(it.items[i])])
    ELSE LET x == first_sequence(predictions) IN
         IF IsRaise(x) THEN x ELSE PyList(<<x>>)

\* What an adapter did: the request, then the column written or the exception.
Adapted(op, df, column, parameters, options, model, http, q, predictions) ==
    LET set == IF IsRaise(predictions) THEN [df |-> df, err |-> predictions.s]
               ELSE df_setitem(df, "predictions", predictions.items)
    IN  [Called(op, parameters, options, model, http, q)
         EXCEPT !.column = column, !.dfBefore = df, !.dfAfter = set.df,
                !.raised = set.err]

\* Lines 60-67.
fill_mask_in_df(df, column, options, model, http) ==
    LET q == _query_in_df(client, df, column, PyNone, options, model,
                          PyStr("fill-mask"), http)
    IN  /\ last' = Adapted("fill_mask_in_df", df, column, PyNone, options, model, http, q,
                           fill_mask_predictions(q.result))
        /\ UNCHANGED <<client, zsc_default, frames>>

\* A tolerant extraction: None for an element with no 'summary_text'.
summary_text_of_get(prediction) ==
    IF prediction.t = "dict" /\ DictHas(prediction, "summary_text")
    THEN DictGet(prediction, "summary_text")
    ELSE PyNone

\* Line 93: prediction['summary_text'].
summary_text_of(prediction) == getitem_key(prediction, "summary_text")

\* Line 93.
summarization_predictions(predictions) ==
    LET it == py_iter(predictions) IN
    IF IsRaise(it) THEN it
    ELSE ListComp([i \in 1..Len(it.items) |-> summary_text_of(it.items[i])])

\* Line 92: the call of _query_in_df.  It names options, model and task; the
\* adapter's `parameters` is not passed on, so _query_in_df's default None is used.
summarization_in_df_query(self, df, column, parameters, options, model, http) ==
    _query_in_df(self, df, column, PyNone, options, model, PyStr("summarization"), http)

\* Lines 92-94.
summarization_in_df(df, column, parameters, options, model, http) ==
    LET q == summarization_in_df_query(client, df, column, parameters, options, model, http)
    IN  /\ last' = Adapted("summarization_in_df", df, column, parameters, options, model,
                           http, q, summarization_predictions(q.result))
        /\ UNCHANGED <<client, zsc_default, frames>>

first_label(prediction) == getitem_key(getitem_0(prediction), "label")

\* Line 158.
text_classification_predictions(predictions) ==
    LET it == py_iter(predictions) IN
    IF IsRaise(it) THEN it
    ELSE ListComp([i \in 1..Len(it.items) |-> first_label(it.items[i])])

\* Lines 157-159.
text_classification_in_df(df, column, options, model, http) ==
    LET q == _query_in_df(client, df, column, PyNone, options, model,
                          PyStr("text-classification"), http)
    IN  /\ last' = Adapted("text_classification_in_df", df, column, PyNone, options, model,
                           http, q, text_classification_predictions(q.result))
        /\ UNCHANGED <<client, zsc_default, frames>>

(***************************************************************************)
(* The callers' tables and the service's answers to the adapters.          *)
(***************************************************************************)
RowText(i) == PyStr("Row " \o ToString(i) \o " is [MASK].")

\* A table of n rows with the columns id and text, and maybe an old predictions.
Table(n, predicted) ==
    DataFrame(n,
              IF predicted THEN <<"id", "predictions", "text">> ELSE <<"id", "text">>,
              IF predicted
              THEN <<[i \in 1..n |-> PyNum(ToString(i))],
                     [i \in 1..n |-> PyStr("old " \o ToString(i))],
                     [i \in 1..n |-> RowText(i)]>>
              ELSE <<[i \in 1..n |-> PyNum(ToString(i))], [i \in 1..n |-> RowText(i)]>>)

Tables == {Table(n, predicted) : n \in 0..MaxRows, predicted \in BOOLEAN}

SequenceText(i, j) == "Row " \o ToString(i) \o " is candidate " \o ToString(j) \o "."

Candidate(i, j) ==
    PyDict(<<"sequence", "score", "token_str">>,
           <<PyStr(SequenceText(i, j)), PyNum("0.1"), PyStr("candidate " \o ToString(j))>>)

\* fill-mask on a batch of k inputs: k lists of candidates.
Batched(k) == PyList([i \in 1..k |-> PyList(<<Candidate(i, 1), Candidate(i, 2)>>)])

\* fill-mask on a single input: one flat list of k candidates.
Flat(k) == PyList([j \in 1..k |-> Candidate(1, j)])

Mixed == PyList(<<PyList(<<Candidate(1, 1)>>), Candidate(2, 1)>>)

SummaryText(i) == "Summary of row " \o ToString(i) \o "."

Summaries(k) == PyList([i \in 1..k |-> PyDict(<<"summary_text">>, <<PyStr(SummaryText(i))>>)])

LabelText(i, j) == IF (i + j) % 2 = 0 THEN "POSITIVE" ELSE "NEGATIVE"

Labels(k) ==
    PyList([i \in 1..k |->
              PyList(<<PyDict(<<"label", "score">>, <<PyStr(LabelText(i, 1)), PyNum("0.99")>>),
                       PyDict(<<"label", "score">>, <<PyStr(LabelText(i, 2)), PyNum("0.01")>>)>>)])

Failures ==
    {HttpResponse(503, json_dumps(ServiceError)), HttpResponse(200, Truncated), HttpFailure}

FillMaskAnswers ==
    {HttpResponse(200, json_dumps(Batched(k))) : k \in 0..MaxRows}
    \cup {HttpResponse(200, json_dumps(Flat(k))) : k \in 1..MaxRows}
    \cup {HttpResponse(200, json_dumps(Mixed))} \cup Failures

SummarizationAnswers ==
    {HttpResponse(200, json_dumps(Summaries(k))) : k \in 0..MaxRows} \cup Failures

TextClassificationAnswers ==
    {HttpResponse(200, json_dumps(Labels(k))) : k \in 0..MaxRows} \cup Failures

Columns == {"text", "body"}

NextDf ==
    \/ \E df \in Tables, c \in Columns, o \in OptionArgs, h \in FillMaskAnswers :
          /\ (c # "text" => o = PyNone /\ h = HttpFailure)
          /\ fill_mask_in_df(df, c, o, PyNone, h)
    \/ \E df \in Tables, c \in Columns, p \in {PyNone, PyDict(<<"max_length">>, <<PyNum("20")>>)},
          o \in OptionArgs, m \in {PyNone, PyStr("gpt2")}, h \in SummarizationAnswers :
          /\ (c # "text" => p = PyNone /\ o = PyNone /\ m = PyNone /\ h = HttpFailure)
          /\ summarization_in_df(df, c, p, o, m, h)
    \/ \E df \in Tables, c \in Columns, m \in {PyNone, PyStr("gpt2")},
          h \in TextClassificationAnswers :
          /\ (c # "text" => m = PyNone /\ h = HttpFailure)
          /\ text_classification_in_df(df, c, PyNone, m, h)

SpecDf == Init /\ [][NextDf]_vars

(***************************************************************************)
(* Properties of the tabular adapters.                                     *)
(***************************************************************************)
Adapters == {"fill_mask_in_df", "summarization_in_df", "text_classification_in_df"}

HasColumn(df, column) == \E j \in 1..Len(df.names) : df.names[j] = column

ColumnOf(df, column) == df.data[CHOOSE j \in 1..Len(df.names) : df.names[j] = column]

\* The answer holding one result per row of an n-row table, and the value the
\* adapter is to write in row i.
PerRow(op, n) ==
    CASE op = "fill_mask_in_df" -> Batched(n)
      [] op = "summarization_in_df" -> Summaries(n)
      [] op = "text_classification_in_df" -> Labels(n)

Derived(op, i) ==
    CASE op = "fill_mask_in_df" -> PyStr(SequenceText(i, 1))
      [] op = "summarization_in_df" -> PyStr(SummaryText(i))
      [] op = "text_classification_in_df" -> PyStr(LabelText(i, 1))

\* Every column but 'predictions' is as it was, and no column is lost.
OthersUnchanged ==
    /\ \A j \in 1..Len(last.dfBefore.names) :
          /\ HasColumn(last.dfAfter, last.dfBefore.names[j])
          /\ last.dfBefore.names[j] # "predictions" =>
                ColumnOf(last.dfAfter, last.dfBefore.names[j]) = last.dfBefore.data[j]
    /\ \A j \in 1..Len(last.dfAfter.names) :
          \/ last.dfAfter.names[j] = "predictions"
          \/ HasColumn(last.dfBefore, last.dfAfter.names[j])

\* C8: an adapter given a table of n rows and an answer of n per-row results
\* writes a 'predictions' column of n rows, row i holding the value derived from
\* element i (the first candidate's 'sequence', the 'summary_text', the first
\* entry's 'label'); an old 'predictions' is overwritten, other columns are kept.
C8_PredictionsPerRow ==
    \A n \in 0..MaxRows :
        (/\ last.op \in Adapters
         /\ last.q.sent = 1
         /\ last.dfBefore.n = n
         /\ last.http = HttpResponse(200, json_dumps(PerRow(last.op, n)))) =>
            /\ last.raised = ""
            /\ last.dfAfter.n = n
            /\ HasColumn(last.dfAfter, "predictions")
            /\ Len(ColumnOf(last.dfAfter, "predictions")) = n
            /\ \A i \in 1..n :
                  ColumnOf(last.dfAfter, "predictions")[i] = Derived(last.op, i)
            /\ OthersUnchanged

FlatAnswered ==
    /\ last.op = "fill_mask_in_df"
    /\ last.q.sent = 1
    /\ \E k \in 1..MaxRows : last.http = HttpResponse(200, json_dumps(Flat(k)))

\* C9 as stated: on a flat answer fill_mask_in_df takes the first element's
\* 'sequence' once and returns the table with a single-row 'predictions', whatever
\* the table's row count, without failing.
C9_FlatAnswerAnyRowCount ==
    FlatAnswered =>
        /\ last.raised = ""
        /\ HasColumn(last.dfAfter, "predictions")
        /\ ColumnOf(last.dfAfter, "predictions") = <<PyStr(SequenceText(1, 1))>>

\* C9 as amended: on a flat answer fill_mask_in_df takes the first element's
\* 'sequence' once.  On a table of one row it returns the table with that value
\* as the one row of 'predictions', the other columns kept; on a table of two or
\* more rows the one-element column does not fit, the assignment raises
\* ValueError and the table is left as it was.
C9_FlatAnswerOneRow ==
    FlatAnswered =>
        /\ last.dfBefore.n = 1 =>
              /\ last.raised = ""
              /\ last.dfAfter.n = 1
              /\ HasColumn(last.dfAfter, "predictions")
              /\ ColumnOf(last.dfAfter, "predictions") = <<PyStr(SequenceText(1, 1))>>
              /\ OthersUnchanged
        /\ last.dfBefore.n >= 2 =>
              /\ last.raised = "ValueError"
              /\ last.dfAfter = last.dfBefore

C9_Witness ==
    /\ FlatAnswered
    /\ last.dfBefore.n = 2
    /\ last.http = HttpResponse(200, json_dumps(Flat(2)))
    /\ last.raised = "ValueError"
    /\ last.dfAfter = last.dfBefore

\* C10: summarization_in_df(df, column, parameters=P, options=O, model=M) sends the
\* request (URL and body) that summarization(df[column].tolist(), parameters=P,
\* options=O, model=M) sends; a given P is the body's 'parameters'.
C10_AdapterSendsTaskRequest ==
    (last.op = "summarization_in_df" /\ last.q.called) =>
        LET task == summarization_query(client, df_getitem(last.dfBefore, last.column),
                                        last.cparameters, last.coptions, last.cmodel,
                                        last.http)
        IN  /\ last.q.sent = task.sent
            /\ last.q.url = task.url
            /\ last.q.body = task.body
            /\ last.cparameters # PyNone =>
                  /\ DictHas(SentBody, "parameters")
                  /\ DictGet(SentBody, "parameters") = last.cparameters

\* An adapter's request was answered with a JSON object that reports an error.
ErrorAnswered ==
    /\ last.op \in Adapters
    /\ last.q.sent = 1
    /\ last.q.result.t = "dict"
    /\ DictHas(last.q.result, "error")

\* C12: an adapter whose request the service answers with an error-shaped JSON
\* object raises (fill_mask_in_df a KeyError from predictions[0], the other two a
\* TypeError from subscripting a key of the object) and leaves the table as it
\* was: no 'predictions' column is added, an existing one keeps its old values.
C12_ErrorAnswerLeavesTable ==
    ErrorAnswered =>
        /\ last.raised = (IF last.op = "fill_mask_in_df" THEN "KeyError" ELSE "TypeError")
        /\ last.dfAfter = last.dfBefore
        /\ HasColumn(last.dfAfter, "predictions") <=> HasColumn(last.dfBefore, "predictions")
        /\ HasColumn(last.dfBefore, "predictions") =>
              ColumnOf(last.dfAfter, "predictions") = ColumnOf(last.dfBefore, "predictions")

C12_Witness ==
    /\ ErrorAnswered
    /\ last.op = "summarization_in_df"
    /\ last.http = HttpResponse(503, json_dumps(ServiceError))
    /\ last.dfBefore = Table(2, TRUE)
    /\ last.raised = "TypeError"
    /\ ColumnOf(last.dfAfter, "predictions") = <<PyStr("old 1"), PyStr("old 2")>>

(***************************************************************************)
(* Concurrent callers.  Each caller runs its call in a thread of its own;  *)
(* the interpreter may switch threads between any two statements.  A frame *)
(* holds the call's local names; pc is the source line the thread is to    *)
(* run next.  The local name `parameters` of zero_shot_classification is a *)
(* reference: to the default object (given = FALSE) or to the caller's own *)
(* mapping (given = TRUE, held in the frame).                              *)
(***************************************************************************)
\* The clients a caller may call: the shared one, or one of its own.
Clients == {NLP("hf_token"), NLP("hf_other")}

CallerText(c) == PyStr("text of caller " \o c)

\* What the service answers to concurrent callers.
ThreadAnswers == {HttpResponse(200, json_dumps(Answer)), HttpResponse(503, json_dumps(ServiceError))}

\* Line 173: a caller enters zero_shot_classification; its arguments are bound.
zero_shot_classification_173(c, self, candidate_labels, given, value, options) ==
    /\ frames[c].pc = "idle"
    /\ frames' = [frames EXCEPT ![c] =
                     [NoFrame EXCEPT !.pc = "184", !.op = "zero_shot_classification",
                                     !.self = self, !.text = CallerText(c),
                                     !.labels = candidate_labels, !.given = given,
                                     !.parameters = value, !.options = options]]
    /\ UNCHANGED <<client, zsc_default, last>>

\* Line 184: the insertion, into the object `parameters` refers to.
zero_shot_classification_184(c) ==
    LET f == frames[c]
        after == zsc_insert(zsc_parameters(f.given, f.parameters, zsc_default), f.labels)
    IN  /\ f.pc = "184"
        /\ frames' = [frames EXCEPT ![c].pc = "186",
                                    ![c].parameters = IF f.given THEN after ELSE @]
        /\ zsc_default' = IF f.given THEN zsc_default ELSE after
        /\ UNCHANGED <<client, last>>

\* Line 69: a caller enters summarization.
summarization_69(c, self, parameters, options) ==
    /\ frames[c].pc = "idle"
    /\ frames' = [frames EXCEPT ![c] =
                     [NoFrame EXCEPT !.pc = "79", !.op = "summarization", !.self = self,
                                     !.text = CallerText(c), !.given = TRUE,
                                     !.parameters = parameters, !.options = options]]
    /\ UNCHANGED <<client, zsc_default, last>>

\* Lines 186-192 and 79, then lines 17-33: the call of _query up to the POST.  The
\* body is serialised at line 33 from the object `parameters` refers to, as that
\* object is then.
_query_33(c, http) ==
    LET f == frames[c]
        parameters == zsc_parameters(f.given, f.parameters, zsc_default)
    IN  /\ f.pc \in {"186", "79"}
        /\ frames' = [frames EXCEPT ![c].pc = "34",
                                    ![c].q = _query(f.self, f.text, parameters, f.options,
                                                    f.model, PyStr(TaskOf[f.op]), http)]
        /\ UNCHANGED <<client, zsc_default, last>>

\* Line 34: the answer is parsed and the call returns.
_query_34(c) ==
    /\ frames[c].pc = "34"
    /\ frames' = [frames EXCEPT ![c] = NoFrame]
    /\ UNCHANGED <<client, zsc_default, last>>

NextThreads ==
    \/ \E c \in Callers, self \in Clients, l \in CandidateLabels, g \in BOOLEAN,
          o \in OptionArgs :
          zero_shot_classification_173(c, self, l, g, IF g THEN EmptyDict ELSE PyNone, o)
    \/ \E c \in Callers : zero_shot_classification_184(c)
    \/ \E c \in Callers, self \in Clients,
          p \in {PyNone, PyDict(<<"max_length">>, <<PyNum("20")>>)}, o \in OptionArgs :
          summarization_69(c, self, p, o)
    \/ \E c \in Callers, h \in ThreadAnswers : _query_33(c, h)
    \/ \E c \in Callers : _query_34(c)

SpecThreads == Init /\ [][NextThreads]_vars

\* The body of the request a caller has sent, as the service decodes it.
FrameBody(c) == json_loads(frames[c].q.body)

\* C11: with callers running task methods concurrently, on a shared client or on
\* clients of their own, every request sent carries the inputs, parameters and
\* options of the call that sent it, under that call's client's token; a
\* zero_shot_classification call with candidate labels L sends a body whose
\* parameters.candidate_labels is L, never another call's labels, also when the
\* parameters argument is omitted.
C11_RequestCarriesOwnArguments ==
    \A c \in Callers :
        frames[c].pc = "34" =>
            LET f == frames[c] IN
            /\ f.q.sent = 1
            /\ f.q.auth = "Bearer " \o f.self.api_token
            /\ DictGet(FrameBody(c), "inputs") = f.text
            /\ DictHas(FrameBody(c), "options") <=> f.options # PyNone
            /\ f.options # PyNone => DictGet(FrameBody(c), "options") = f.options
            /\ f.op = "summarization" =>
                  /\ DictHas(FrameBody(c), "parameters") <=> f.parameters # PyNone
                  /\ f.parameters # PyNone =>
                        DictGet(FrameBody(c), "parameters") = f.parameters
            /\ f.op = "zero_shot_classification" =>
                  /\ DictHas(FrameBody(c), "parameters")
                  /\ DictGet(DictGet(FrameBody(c), "parameters"), "candidate_labels")
                        = f.labels

====
